---- MODULE Spec2Model ----
(***************************************************************************)
(* Call scheduling: the OR-Tools optimizer (src/src/call_optimizer.py),    *)
(* the weekend rules engine (src/src/weekend_rules_engine.py) and the      *)
(* credential lookup (src/credential_aware_optimizer.py).                  *)
(*                                                                         *)
(* A date is an integer day number whose remainder modulo 7 is Python's    *)
(* date.weekday(): 0 = Monday, 4 = Friday, 5 = Saturday, 6 = Sunday.       *)
(* An FTE is kept in hundredths (100 is 1.0, 50 is 0.5).                   *)
(* The CP-SAT solver is modelled by its contract: it returns a valuation   *)
(* of the boolean decision variables that satisfies every constraint the   *)
(* code added (a minimal-objective one when it reports OPTIMAL), reports   *)
(* INFEASIBLE when there is none, and UNKNOWN when its time limit ends the *)
(* search first.                                                           *)
(***************************************************************************)
EXTENDS Integers, Sequences, FiniteSets, TLC

\* ------------------------------------------------------------------ bounds
MaxUsers == 3
MaxDays == 10
MaxGap == 2
\* the most decision variables (users x dates x duty types) of one call
MaxVars == 20
\* the longest solver wall time, in ticks
MaxSolveTime == 1
\* the longest assignment list handed to the compliance check
MaxAssignments == 2

\* the longest list of existing assignment dates given to the frequency check
MaxExisting == 2

\* --------------------------------------------------------------- utilities
None == "None"

Max(S) == CHOOSE x \in S : \A y \in S : y <= x

Min(S) == CHOOSE x \in S : \A y \in S : x <= y

\* ------------------------------------------------------------- day numbers
FRIDAY == 4

SATURDAY == 5

weekday(d) == d % 7

\* --------------------------------------------------------------- duty codes
\* Each duty code with its characters, for the string tests of the code
\* (str.lower, the in-substring test, str.endswith).
Chars ==
    [ LP7    |-> <<"L","P","7">>,          MCL7   |-> <<"M","C","L","7">>,
      THDN7  |-> <<"T","H","D","N","7">>,  THRW7  |-> <<"T","H","R","W","7">>,
      LPG    |-> <<"L","P","G">>,          MCLG   |-> <<"M","C","L","G">>,
      THDNG  |-> <<"T","H","D","N","G">>,  THRWG  |-> <<"T","H","R","W","G">>,
      LPO    |-> <<"L","P","O">>,          MCLO   |-> <<"M","C","L","O">>,
      THDNO  |-> <<"T","H","D","N","O">>,  THROB  |-> <<"T","H","R","O","B">>,
      CMCG   |-> <<"C","M","C","G">>,      CMCO   |-> <<"C","M","C","O">>,
      NE     |-> <<"N","E">>,
      MCKT_D |-> <<"M","C","K","T","_","D">>,
      MCKG_D |-> <<"M","C","K","G","_","D">>,
      MCKC_N |-> <<"M","C","K","C","_","N">>,
      PHR7   |-> <<"P","H","R","7">>,      PHRG   |-> <<"P","H","R","G">>,
      PHRO   |-> <<"P","H","R","O">> ]

UpperLetters ==
    <<"A","B","C","D","E","F","G","H","I","J","K","L","M",
      "N","O","P","Q","R","S","T","U","V","W","X","Y","Z">>

LowerLetters ==
    <<"a","b","c","d","e","f","g","h","i","j","k","l","m",
      "n","o","p","q","r","s","t","u","v","w","x","y","z">>

\* str.lower(), character by character
lower(s) ==
    [i \in 1..Len(s) |->
        IF \E k \in 1..Len(UpperLetters) : UpperLetters[k] = s[i]
        THEN LowerLetters[CHOOSE k \in 1..Len(UpperLetters) : UpperLetters[k] = s[i]]
        ELSE s[i]]

\* Python's "sub in s" for strings
contains(sub, s) ==
    \E k \in 0..(Len(s) - Len(sub)) :
        \A i \in 1..Len(sub) : s[k + i] = sub[i]

saturday_word == <<"s","a","t","u","r","d","a","y">>

sunday_word == <<"s","u","n","d","a","y">>

\* ------------------------------------------------------ weekend rule tables
friday_to_weekend_rules ==
    [ LP7   |-> "LPG",   MCL7  |-> "MCLG",  THDN7 |-> "THDNG", THRW7 |-> "THRWG",
      LPG   |-> "LPO",   MCLG  |-> "MCLO",  THDNG |-> "THDNO", THRWG |-> "THROB",
      LPO   |-> "LPG",   MCLO  |-> "MCLG",  THDNO |-> "THDNG", THROB |-> "THRWG",
      CMCG  |-> "CMCO",  CMCO  |-> "CMCG" ]

\* str.endswith with a one-character suffix
endswith(s, c) == Len(s) > 0 /\ s[Len(s)] = c

\* mutant: every pairing is on the Sunday
get_friday_pairing_always_sunday(friday_call_type) ==
    IF friday_call_type \in DOMAIN friday_to_weekend_rules
    THEN <<"sunday", friday_to_weekend_rules[friday_call_type]>>
    ELSE None

\* get_friday_pairing: <<weekend_day, call_type>> or None
get_friday_pairing(friday_call_type) ==
    IF friday_call_type \in DOMAIN friday_to_weekend_rules
    THEN LET weekend_call_type == friday_to_weekend_rules[friday_call_type] IN
         IF endswith(Chars[friday_call_type], "7")
         THEN <<"saturday", weekend_call_type>>
         ELSE IF friday_call_type \in {"CMCG", "CMCO"}
         THEN <<"sunday", weekend_call_type>>
         ELSE <<"sunday", weekend_call_type>>
    ELSE None

\* 'NE': ['NE'] is a one-element list in the source, the others are strings
weekend_consecutive_rules ==
    [ NE     |-> [is_list |-> TRUE,  value |-> <<"NE">>],
      MCKT_D |-> [is_list |-> FALSE, value |-> "MCKG_D"],
      MCKG_D |-> [is_list |-> FALSE, value |-> "MCKT_D"] ]

get_weekend_consecutive_pairing(saturday_call_type) ==
    IF saturday_call_type \in DOMAIN weekend_consecutive_rules
    THEN LET sunday_type == weekend_consecutive_rules[saturday_call_type]
         IN  IF sunday_type.is_list THEN sunday_type.value[1] ELSE sunday_type.value
    ELSE None

\* The optimizer calls weekend_rules.get_weekend_assignment(call_type, day) and
\* uses the answer as a duty code (or nothing).  The lookup is over the two
\* rule tables of the engine: the Friday table for 'friday', the consecutive
\* table for 'saturday'.
get_weekend_assignment(call_type, day) ==
    IF day = "friday"
    THEN IF call_type \in DOMAIN friday_to_weekend_rules
         THEN friday_to_weekend_rules[call_type] ELSE None
    ELSE get_weekend_consecutive_pairing(call_type)

\* ------------------------------------------------- sandwich compliance check
\* is_required_pair is False unless given
WeekendAssignment(user_id, date, call_type) ==
    [user_id |-> user_id, date |-> date, call_type |-> call_type,
     is_required_pair |-> FALSE]

\* an assignment created by a sandwich rule
RequiredPair(user_id, date, call_type) ==
    [user_id |-> user_id, date |-> date, call_type |-> call_type,
     is_required_pair |-> TRUE]

\* Python's sorted() on a set of integers
RECURSIVE sorted(_)
sorted(S) == IF S = {} THEN <<>> ELSE <<Min(S)>> \o sorted(S \ {Min(S)})

\* user_assignments[user_id][date] = call_type: a later assignment of the list
\* overwrites an earlier one of the same user and date
user_assignments(assignments) ==
    LET of(u) == {i \in DOMAIN assignments : assignments[i].user_id = u}
        at(u, d) == {i \in of(u) : assignments[i].date = d}
    IN  [u \in {assignments[i].user_id : i \in DOMAIN assignments} |->
            [d \in {assignments[i].date : i \in of(u)} |->
                assignments[Max(at(u, d))].call_type]]

\* the keys of user_assignments in the order the dict received them
insertion_order(assignments) ==
    LET ids == {assignments[i].user_id : i \in DOMAIN assignments}
        first(u) == Min({i \in DOMAIN assignments : assignments[i].user_id = u})
        firsts == sorted({first(u) : u \in ids})
    IN  [k \in 1..Len(firsts) |-> assignments[firsts[k]].user_id]

\* a violation message, by the values its text is formatted from; assigned is
\* None in the "but no assignment found" message
violation_message(user_id, day_name, call_type, date, expected, target_date, assigned) ==
    [user_id |-> user_id, day_name |-> day_name, call_type |-> call_type,
     date |-> date, expected |-> expected, target_date |-> target_date,
     assigned |-> assigned]

\* mutant: only a missing paired assignment is reported, not a different one
check_date_missing_only(user_id, user_dates, date) ==
    LET call_type == user_dates[date]
        pairing == get_friday_pairing(call_type)
        expected_sunday_type == get_weekend_consecutive_pairing(call_type)
    IN  (IF weekday(date) = FRIDAY /\ pairing # None
            /\ date + (IF pairing[1] = "saturday" THEN 1 ELSE 2) \notin DOMAIN user_dates
         THEN << violation_message(user_id, "Friday", call_type, date, pairing[2],
                    date + (IF pairing[1] = "saturday" THEN 1 ELSE 2), None) >>
         ELSE <<>>)
        \o
        (IF weekday(date) = SATURDAY /\ expected_sunday_type # None
            /\ date + 1 \notin DOMAIN user_dates
         THEN << violation_message(user_id, "Saturday", call_type, date,
                    expected_sunday_type, date + 1, None) >>
         ELSE <<>>)

\* the body of the loop over one user's dates: the Friday check, then the
\* Saturday check
check_date(user_id, user_dates, date) ==
    LET call_type == user_dates[date]
        pairing == get_friday_pairing(call_type)
        expected_sunday_type == get_weekend_consecutive_pairing(call_type)
    IN  (IF weekday(date) = FRIDAY /\ pairing # None
         THEN LET expected_call_type == pairing[2]
                  target_date == date + (IF pairing[1] = "saturday" THEN 1 ELSE 2)
              IN  IF target_date \notin DOMAIN user_dates
                  THEN << violation_message(user_id, "Friday", call_type, date,
                             expected_call_type, target_date, None) >>
                  ELSE IF user_dates[target_date] # expected_call_type
                  THEN << violation_message(user_id, "Friday", call_type, date,
                             expected_call_type, target_date, user_dates[target_date]) >>
                  ELSE <<>>
         ELSE <<>>)
        \o
        (IF weekday(date) = SATURDAY /\ expected_sunday_type # None
         THEN LET sunday_date == date + 1
              IN  IF sunday_date \notin DOMAIN user_dates
                  THEN << violation_message(user_id, "Saturday", call_type, date,
                             expected_sunday_type, sunday_date, None) >>
                  ELSE IF user_dates[sunday_date] # expected_sunday_type
                  THEN << violation_message(user_id, "Saturday", call_type, date,
                             expected_sunday_type, sunday_date, user_dates[sunday_date]) >>
                  ELSE <<>>
         ELSE <<>>)

\* for date in dates (sorted)
RECURSIVE check_dates(_, _, _)
check_dates(user_id, user_dates, dates) ==
    IF dates = <<>> THEN <<>>
    ELSE check_date(user_id, user_dates, Head(dates))
            \o check_dates(user_id, user_dates, Tail(dates))

\* for user_id, user_dates in user_assignments.items()
RECURSIVE check_users(_, _)
check_users(by_user, order) ==
    IF order = <<>> THEN <<>>
    ELSE check_dates(Head(order), by_user[Head(order)],
                     sorted(DOMAIN by_user[Head(order)]))
            \o check_users(by_user, Tail(order))

\* validate_sandwich_compliance(assignments): the list of violation messages
validate_sandwich_compliance(assignments) ==
    check_users(user_assignments(assignments), insertion_order(assignments))

\* -------------------------------------------------------------- credentials
credential_mapping ==
    ( "Cred Call: CMCG Call Pool" :> {"CMCG"} ) @@
    ( "Cred Call: CMCO Call Pool" :> {"CMCO"} ) @@
    ( "Cred Call: LPH Call Pool"  :> {"LP7", "LPG", "LPO"} ) @@
    ( "Cred Call: MCL Call Pool"  :> {"MCL7", "MCLG", "MCLO"} ) @@
    ( "Cred Call: MCK Call Pool"  :> {"MCKC_N", "MCKT_D", "MCKG_D"} ) @@
    ( "Cred Call: THDN Call Pool" :> {"THDN7", "THDNG", "THDNO"} ) @@
    ( "Cred Call: NE Call Pool"   :> {"NE"} ) @@
    ( "Cred Call: PHR Call Pool"  :> {"PHR7", "PHRG", "PHRO"} )

\* the call types a user is credentialed for, from the user's groups
get_user_call_credentials(groups) ==
    UNION {credential_mapping[g] : g \in groups \cap DOMAIN credential_mapping}

\* 'cred call:' in group.get('groupName', '').lower(): the group names of the
\* model that carry the prefix are the keys of the credential table
is_cred_call_group(g) == g \in DOMAIN credential_mapping

\* ------------------------------------------------------ apply_sandwich_rules
\* some assignment of the list is of this user on this date
assigned_on(assignments, user_id, date) ==
    \E k \in DOMAIN assignments :
        assignments[k].user_id = user_id /\ assignments[k].date = date

\* mutant: the Friday loop creates the paired assignment even when the user
\* already has one on the target date
RECURSIVE apply_friday_rules_always(_, _, _, _)
apply_friday_rules_always(assignments, unavailable_users, i, updated_assignments) ==
    IF i > Len(assignments) THEN updated_assignments
    ELSE LET assignment == assignments[i]
             pairing == get_friday_pairing(assignment.call_type)
         IN  IF assignment.user_id \notin unavailable_users
                /\ weekday(assignment.date) = FRIDAY /\ pairing # None
             THEN apply_friday_rules_always(assignments, unavailable_users, i + 1,
                      Append(updated_assignments,
                             RequiredPair(assignment.user_id,
                                 assignment.date + (IF pairing[1] = "saturday" THEN 1 ELSE 2),
                                 pairing[2])))
             ELSE apply_friday_rules_always(assignments, unavailable_users, i + 1,
                                            updated_assignments)

\* The Friday loop over the input list.  assignments_by_date receives every
\* assignment the loop creates, so it holds what updated_assignments holds.
RECURSIVE apply_friday_rules(_, _, _, _)
apply_friday_rules(assignments, unavailable_users, i, updated_assignments) ==
    IF i > Len(assignments) THEN updated_assignments
    ELSE LET assignment == assignments[i]
             pairing == get_friday_pairing(assignment.call_type)
         IN  IF assignment.user_id \notin unavailable_users
                /\ weekday(assignment.date) = FRIDAY /\ pairing # None
             THEN LET weekend_call_type == pairing[2]
                      target_date == assignment.date
                                        + (IF pairing[1] = "saturday" THEN 1 ELSE 2)
                  IN  IF ~assigned_on(updated_assignments, assignment.user_id, target_date)
                      THEN apply_friday_rules(assignments, unavailable_users, i + 1,
                               Append(updated_assignments,
                                      RequiredPair(assignment.user_id, target_date,
                                                   weekend_call_type)))
                      ELSE apply_friday_rules(assignments, unavailable_users, i + 1,
                                              updated_assignments)
             ELSE apply_friday_rules(assignments, unavailable_users, i + 1,
                                     updated_assignments)

\* The Saturday loop over the input list.  Its new assignments are appended to
\* updated_assignments only: the lookup stays at by_date, the input list and
\* what the Friday loop created.
RECURSIVE apply_saturday_rules(_, _, _, _, _)
apply_saturday_rules(assignments, unavailable_users, i, by_date, updated_assignments) ==
    IF i > Len(assignments) THEN updated_assignments
    ELSE LET assignment == assignments[i]
             sunday_call_type == get_weekend_consecutive_pairing(assignment.call_type)
             sunday_date == assignment.date + 1
         IN  IF /\ assignment.user_id \notin unavailable_users
                /\ weekday(assignment.date) = SATURDAY
                /\ sunday_call_type # None
                /\ ~assigned_on(by_date, assignment.user_id, sunday_date)
             THEN apply_saturday_rules(assignments, unavailable_users, i + 1, by_date,
                      Append(updated_assignments,
                             RequiredPair(assignment.user_id, sunday_date,
                                          sunday_call_type)))
             ELSE apply_saturday_rules(assignments, unavailable_users, i + 1, by_date,
                                       updated_assignments)

\* apply_sandwich_rules(assignments, unavailable_users)
apply_sandwich_rules(assignments, unavailable_users) ==
    LET after_friday == apply_friday_rules(assignments, unavailable_users, 1, assignments)
    IN  apply_saturday_rules(assignments, unavailable_users, 1, after_friday, after_friday)

\* ------------------------------------------------------ availability loader
\* 1.0 in the unit of the loader's FTE values, one ten-thousandth (so that
\* value / 100.0 is exact for the values of the model)
FteOne == 10000

\* what /External/get_users_editableFieldValue may answer: the request raises,
\* success is false, value is missing, value is no number, or a value
FteResponses ==
    { [kind |-> k, value |-> 0] : k \in {"raises", "unsuccessful", "no_value", "not_a_number"} }
    \cup { [kind |-> "value", value |-> v] :
              v \in {-5000, 0, 5000, 10000, 10100, 500000, 1000000, 1500000} }

\* mutant: a value of exactly 1.0 is taken for a percentage too
get_user_fte_divides_one(response) ==
    IF response.kind = "value"
    THEN IF response.value >= FteOne THEN response.value \div 100 ELSE response.value
    ELSE FteOne

\* _get_user_fte, by the response of the lookup
get_user_fte(response) ==
    IF response.kind = "raises" THEN FteOne
    ELSE IF response.kind # "unsuccessful"
    THEN IF response.kind # "no_value"
         THEN IF response.kind = "not_a_number" THEN FteOne
              ELSE LET fte_float == response.value
                   IN  IF fte_float > FteOne THEN fte_float \div 100 ELSE fte_float
         ELSE FteOne
    ELSE FteOne

UserAvailability(user_id, user_group, fte, vacation_dates, no_call_dates, part_time_dates) ==
    [user_id |-> user_id, user_group |-> user_group, fte |-> fte,
     vacation_dates |-> vacation_dates, no_call_dates |-> no_call_dates,
     part_time_dates |-> part_time_dates]

eligible_groups == {"Full Time", "Part Time", "Part Time + Self Select", "PRN (Call Only)"}

VACATION_SCHEDULE_ID == 384

NO_CALL_SCHEDULE_ID == 385

PART_TIME_SCHEDULE_ID == 386

\* the dates a schedule's assignments give to one user
dates_of(assignments, user_id) == {x[2] : x \in {y \in assignments : y[1] = user_id}}

\* load_user_availability: [raised |-> TRUE] when a request raises, otherwise
\* the dict user_id -> UserAvailability in value.  The roster request raises
\* before the loop; the three schedule requests are made inside the loop, for
\* every user that passes the group filter.
load_user_availability(roster, fte, schedules) ==
    IF roster.kind = "raises" THEN [raised |-> TRUE, value |-> <<>>]
    ELSE LET users == IF roster.kind = "users" THEN roster.users ELSE <<>>
             kept == {i \in DOMAIN users : users[i].coregroup \in eligible_groups}
         IN  IF kept # {} /\ \E id \in DOMAIN schedules : schedules[id].raises
             THEN [raised |-> TRUE, value |-> <<>>]
             ELSE [raised |-> FALSE,
                   value |->
                     [u \in {users[i].userid : i \in kept} |->
                        UserAvailability(u,
                            users[CHOOSE i \in kept : users[i].userid = u].coregroup,
                            get_user_fte(fte[u]),
                            dates_of(schedules[VACATION_SCHEDULE_ID].assignments, u),
                            dates_of(schedules[NO_CALL_SCHEDULE_ID].assignments, u),
                            dates_of(schedules[PART_TIME_SCHEDULE_ID].assignments, u))]]

\* ------------------------------------------------------ constraint validator
\* the fields of SchedulingConstraints the frequency check reads
max_calls_per_month == 10

max_consecutive_calls == 2

user_group_max_calls ==
    ( "Full Time" :> 10 ) @@ ( "Part Time" :> 6 ) @@
    ( "Part Time + Self Select" :> 6 ) @@ ( "PRN (Call Only)" :> 12 )

\* int(base_max * self.fte)
get_max_calls_for_period(user_availability) ==
    LET base_max == IF user_availability.user_group \in DOMAIN user_group_max_calls
                    THEN user_group_max_calls[user_availability.user_group]
                    ELSE max_calls_per_month
    IN  (base_max * user_availability.fte) \div FteOne

\* _count_consecutive_calls: the longest run of consecutive days in the sorted
\* list of the existing dates and the new one (a repeated date ends a run)
RECURSIVE count_run(_, _, _, _)
count_run(all_dates, i, current_consecutive, max_consecutive) ==
    IF i > Len(all_dates) THEN max_consecutive
    ELSE IF all_dates[i] - all_dates[i - 1] = 1
    THEN count_run(all_dates, i + 1, current_consecutive + 1,
                   Max({max_consecutive, current_consecutive + 1}))
    ELSE count_run(all_dates, i + 1, 1, max_consecutive)

RECURSIVE sorted_list(_)
sorted_list(l) ==
    IF l = <<>> THEN <<>>
    ELSE LET m == Min({l[i] : i \in DOMAIN l})
             k == CHOOSE i \in DOMAIN l : l[i] = m
         IN  <<m>> \o sorted_list([i \in 1..(Len(l) - 1) |-> IF i < k THEN l[i] ELSE l[i + 1]])

count_consecutive_calls(existing_assignments, new_date) ==
    count_run(sorted_list(Append(existing_assignments, new_date)), 2, 1, 1)

\* validate_call_frequency, with gap = self.constraints.min_days_between_calls
validate_call_frequency(user_availability, existing_assignments, new_assignment_date, gap) ==
    IF Len(existing_assignments) >= get_max_calls_for_period(user_availability)
    THEN [is_valid |-> FALSE, reason |-> "max calls"]
    ELSE IF \E i \in DOMAIN existing_assignments :
               LET days_diff == new_assignment_date - existing_assignments[i]
               IN  (IF days_diff < 0 THEN -days_diff ELSE days_diff) < gap
    THEN [is_valid |-> FALSE, reason |-> "too close"]
    ELSE IF count_consecutive_calls(existing_assignments, new_assignment_date)
               > max_consecutive_calls
    THEN [is_valid |-> FALSE, reason |-> "max consecutive"]
    ELSE [is_valid |-> TRUE, reason |-> "Valid frequency"]

\* ------------------------------------------------------------------- state
VARIABLES
    user_groups,             \* external source: user id -> set of group names
    fte_data,                \* external source: user id -> FTE, in hundredths
    vacation_data,           \* external source: user id -> leave dates (schedule 384)
    no_call_data,            \* external source: user id -> no-call dates (schedule 385)
    start_date,              \* optimize_schedule's arguments
    end_date,
    call_types,
    min_days_between_calls,  \* constraints.min_days_between_calls
    enforce_weekend_rules,   \* the enforce_weekend_rules the caller asks for
    roster_available,        \* external source: FALSE when get_user_roster raises
    pc,                      \* "ready" before the call, "done" after it returned
    eligible_users,          \* locals of the call, kept for the properties
    user_availabilities,
    status,                  \* the solver's status, None before a solve
    result,                  \* the ScheduleResult returned
    feasible_spreads,        \* history: the spread of every valuation that
                             \* satisfies the model handed to the solver
    weekend_assignments,     \* the list handed to validate_sandwich_compliance
    compliance_violations,   \* the list it returned
    friday_call_type,        \* the argument of get_friday_pairing
    friday_pairing,          \* what it returned
    unavailable,             \* the unavailable_users handed to apply_sandwich_rules
    applied_assignments,     \* the list apply_sandwich_rules returned
    called,                  \* the methods that have returned
    roster_response,         \* external source, as AvailabilityLoader sees it:
    fte_responses,           \*   the answers to the roster request, to the FTE
    schedule_responses,      \*   request per user, to the request per schedule
    loaded,                  \* what load_user_availability returned (or raised)
    user_fte,                \* what _get_user_fte returned for user 1
    frequency_existing,      \* validate_call_frequency's existing_assignments
    frequency_new_date,      \* its new_assignment_date
    frequency_verdict,       \* what it returned
    calls                    \* two invocations of optimize_schedule on one
                             \* optimizer: arguments, position, locals, result

vars ==
    << user_groups, fte_data, vacation_data, no_call_data, start_date, end_date,
       call_types, min_days_between_calls, enforce_weekend_rules, roster_available,
       pc, eligible_users, user_availabilities, status, result, feasible_spreads,
       weekend_assignments, compliance_violations, friday_call_type, friday_pairing,
       unavailable, applied_assignments, called, roster_response, fte_responses,
       schedule_responses, loaded, user_fte, frequency_existing, frequency_new_date,
       frequency_verdict, calls >>

\* the arguments, external sources, locals and result of one optimize_schedule
optimizer_vars ==
    << user_groups, fte_data, vacation_data, no_call_data, start_date, end_date,
       call_types, min_days_between_calls, enforce_weekend_rules, roster_available,
       pc, eligible_users, user_availabilities, status, result, feasible_spreads >>

\* the variables of the rules engine calls
engine_vars ==
    << weekend_assignments, compliance_violations, friday_call_type, friday_pairing,
       unavailable, applied_assignments, called >>

\* the variables of the loader and validator calls
loader_vars ==
    << roster_response, fte_responses, schedule_responses, loaded, user_fte,
       frequency_existing, frequency_new_date, frequency_verdict >>

Roster == 1..MaxUsers

\* ---------------------------------------------------------- optimizer parts
\* mutant: every roster user is eligible, whatever the lookups say
get_eligible_users_unfiltered(available, groups) == Roster

\* _get_eligible_users: the physicians of the roster with a call credential
\* group (every roster user of the model is a physician); the empty list when
\* the roster lookup raises
get_eligible_users(available, groups) ==
    IF available
    THEN {u \in Roster : \E g \in groups[u] : is_cred_call_group(g)}
    ELSE {}

\* load_user_availabilities(eligible_users, start_date, end_date): one record
\* for every requested user
load_user_availabilities(users, fte, vacation, no_call) ==
    [u \in users |->
        [fte |-> fte[u], vacation_dates |-> vacation[u], no_call_dates |-> no_call[u]]]

\* mutant: the end date left out of the range
generate_date_range_exclusive(start, end) ==
    [i \in 1..(IF end > start THEN end - start ELSE 0) |-> start + i - 1]

\* _generate_date_range: the list start, start + 1, ..., end (empty if end < start)
generate_date_range(start, end) ==
    [i \in 1..(IF end >= start THEN end - start + 1 ELSE 0) |-> start + i - 1]

\* A valuation of the decision variables assignments[user_id][date][call_type]
\* is the set of triples <<user_id, date, call_type>> whose variable is 1.
of_user(a, u) == {x \in a : x[1] = u}

\* mutant: a duty slot may stay empty
covered_at_most_once(a, users, ds, cts) ==
    \A d \in ds : \A ct \in cts :
        Cardinality({u \in users : <<u, d, ct>> \in a}) <= 1

\* Constraint 1: each call type is covered exactly once on each date of ds
covered_exactly_once(a, users, ds, cts) ==
    \A d \in ds : \A ct \in cts :
        Cardinality({u \in users : <<u, d, ct>> \in a}) = 1

\* mutant: the sum taken over the users of a slot, not over the duty types of
\* a user
at_most_one_user_per_slot(a, users, ds, cts) ==
    \A ct \in cts : \A d \in ds :
        Cardinality({u \in users : <<u, d, ct>> \in a}) <= 1

\* Constraint 2: no user has several assignments on one date of ds
at_most_one_per_day(a, users, ds, cts) ==
    \A u \in users : \A d \in ds :
        Cardinality({ct \in cts : <<u, d, ct>> \in a}) <= 1

\* mutant: the no-call dates forgotten
respects_vacation_only(a, users, ds, cts, avail) ==
    \A u \in users :
        u \in DOMAIN avail =>
            \A d \in ds :
                d \in avail[u].vacation_dates =>
                    \A ct \in cts : <<u, d, ct>> \notin a

\* Constraint 3: vacation and no-call dates of ds are forced to 0
respects_availability(a, users, ds, cts, avail) ==
    \A u \in users :
        u \in DOMAIN avail =>
            \A d \in ds :
                (d \in avail[u].vacation_dates \/ d \in avail[u].no_call_dates) =>
                    \A ct \in cts : <<u, d, ct>> \notin a

\* Constraint 4: the anchors are dates[:-gap], the followers dates[i+1..i+gap]
min_days_between(a, users, dates, cts, gap) ==
    gap > 0 =>
        \A u \in users :
            \A i \in 1..(Len(dates) - gap) :
                \A j \in 1..gap :
                    i + j <= Len(dates) =>
                        \A ct1 \in cts : \A ct2 \in cts :
                            <<u, dates[i], ct1>> \in a => <<u, dates[i + j], ct2>> \notin a

\* Constraint 5, Friday part: an implication only when the paired duty code,
\* lowercased, contains 'saturday' or 'sunday'
friday_sandwich(a, users, dates, cts) ==
    \A i \in 1..Len(dates) :
        (weekday(dates[i]) = FRIDAY /\ i < Len(dates) - 1) =>
            \A u \in users : \A ct \in cts :
                LET weekend_call_type == get_weekend_assignment(ct, "friday") IN
                (weekend_call_type # None /\ weekend_call_type \in cts) =>
                    IF contains(saturday_word, lower(Chars[weekend_call_type]))
                    THEN <<u, dates[i], ct>> \in a =>
                             <<u, dates[i + 1], weekend_call_type>> \in a
                    ELSE IF contains(sunday_word, lower(Chars[weekend_call_type]))
                    THEN <<u, dates[i], ct>> \in a =>
                             <<u, dates[i + 2], weekend_call_type>> \in a
                    ELSE TRUE

\* mutant: the Saturday rule under the Friday rule's guard (two days left)
saturday_sandwich_friday_guard(a, users, dates, cts) ==
    \A i \in 1..Len(dates) :
        (weekday(dates[i]) = SATURDAY /\ i < Len(dates) - 1) =>
            \A u \in users : \A ct \in cts :
                LET sunday_call_type == get_weekend_assignment(ct, "saturday") IN
                (sunday_call_type # None /\ sunday_call_type \in cts) =>
                    (<<u, dates[i], ct>> \in a =>
                        <<u, dates[i + 1], sunday_call_type>> \in a)

\* Constraint 5, Saturday part
saturday_sandwich(a, users, dates, cts) ==
    \A i \in 1..Len(dates) :
        (weekday(dates[i]) = SATURDAY /\ i < Len(dates)) =>
            \A u \in users : \A ct \in cts :
                LET sunday_call_type == get_weekend_assignment(ct, "saturday") IN
                (sunday_call_type # None /\ sunday_call_type \in cts) =>
                    (<<u, dates[i], ct>> \in a =>
                        <<u, dates[i + 1], sunday_call_type>> \in a)

\* mutant: the FTE factor forgotten
max_calls_ignoring_fte(n_call_types, period_days, n_users, fte) ==
    (n_call_types * period_days * 12) \div (n_users * 10)

\* max_calls_for_user = int(avg_calls_per_user * fte * 1.2); for the values of
\* the model the double arithmetic gives the exact floor
max_calls_for_user(n_call_types, period_days, n_users, fte) ==
    (n_call_types * period_days * fte * 12) \div (n_users * 1000)

\* Constraint 6: the FTE cap of every user with an availability record
fte_based(a, users, dates, cts, avail) ==
    \A u \in users :
        u \in DOMAIN avail =>
            Cardinality(of_user(a, u)) <=
                max_calls_for_user(Cardinality(cts), Len(dates),
                                   Cardinality(users), avail[u].fte)

\* max - min of the assignment counts of valuation a over the given users,
\* users without an assignment counted with 0
spread(a, users) ==
    LET count(u) == Cardinality({x \in a : x[1] = u})
    IN  Max({count(u) : u \in users}) - Min({count(u) : u \in users})

\* mutant: the objective is the maximum alone
max_assignments_only(a, users) ==
    Max({Cardinality(of_user(a, u)) : u \in users})

\* the objective: max_assignments - min_assignments over the eligible users
fairness_penalty(a, users) ==
    LET totals == {Cardinality(of_user(a, u)) : u \in users}
    IN  Max(totals) - Min(totals)

\* The constraints on one date are independent of the other dates: the
\* valuations of one date that satisfy constraints 1 to 3
day_choices(d, users, cts, avail) ==
    {s \in SUBSET (users \X {d} \X cts) :
        /\ covered_exactly_once(s, users, {d}, cts)
        /\ at_most_one_per_day(s, users, {d}, cts)
        /\ respects_availability(s, users, {d}, cts, avail)}

RECURSIVE day_products(_, _, _, _, _)
day_products(k, dates, users, cts, avail) ==
    IF k = 0 THEN {{}}
    ELSE {p \cup s : p \in day_products(k - 1, dates, users, cts, avail),
                     s \in day_choices(dates[k], users, cts, avail)}

\* every valuation that satisfies all the constraints of the model
solutions(users, dates, cts, avail, gap) ==
    {a \in day_products(Len(dates), dates, users, cts, avail) :
        /\ min_days_between(a, users, dates, cts, gap)
        /\ friday_sandwich(a, users, dates, cts)
        /\ saturday_sandwich(a, users, dates, cts)
        /\ fte_based(a, users, dates, cts, avail)}

\* the valuations of S that minimize the objective
optimal(S, users) ==
    IF S = {} THEN {}
    ELSE LET best == Min({fairness_penalty(a, users) : a \in S})
         IN  {a \in S : fairness_penalty(a, users) = best}

\* statistics['assignments_per_user']: only users with an assignment get a key
assignments_per_user(a, users) ==
    [u \in {v \in users : of_user(a, v) # {}} |-> Cardinality(of_user(a, u))]

ScheduleResult(success, assignments, statistics, violations, solve_time_seconds) ==
    [success |-> success, assignments |-> assignments,
     statistics |-> statistics, violations |-> violations,
     solve_time_seconds |-> solve_time_seconds]

\* mutant: the status flag always says OPTIMAL
success_result_always_optimal(a, users, dates, cts, st, solve_time) ==
    ScheduleResult(TRUE, a,
        [total_assignments    |-> Cardinality(a),
         assignments_per_user |-> assignments_per_user(a, users),
         date_range_days      |-> Len(dates),
         call_types_scheduled |-> cts,
         fairness_score       |-> IF st = "OPTIMAL" THEN fairness_penalty(a, users) ELSE None,
         solve_status         |-> "OPTIMAL"],
        {}, solve_time)

success_result(a, users, dates, cts, st, solve_time) ==
    ScheduleResult(TRUE, a,
        [total_assignments    |-> Cardinality(a),
         assignments_per_user |-> assignments_per_user(a, users),
         date_range_days      |-> Len(dates),
         call_types_scheduled |-> cts,
         fairness_score       |-> IF st = "OPTIMAL" THEN fairness_penalty(a, users) ELSE None,
         solve_status         |-> IF st = "OPTIMAL" THEN "OPTIMAL" ELSE "FEASIBLE"],
        {}, solve_time)

\* mutant: the failure is reported without a violation message
failure_result_silent(st, solve_time) ==
    ScheduleResult(FALSE, {}, <<>>, {}, solve_time)

failure_result(st, solve_time) ==
    ScheduleResult(FALSE, {}, <<>>, {"Optimization failed: " \o st}, solve_time)

\* solver.WallTime() after a solve, in ticks
WallTimes == 1..MaxSolveTime

\* ------------------------------------------------------------- the operation
\* optimize_schedule(start_date, end_date, call_types, constraints)
optimize_schedule ==
    /\ pc = "ready"
    /\ pc' = "done"
    /\ LET users == get_eligible_users(roster_available, user_groups) IN
       /\ eligible_users' = users
       /\ IF users = {}
          THEN /\ user_availabilities' = <<>>
               /\ status' = None
               /\ feasible_spreads' = {}
               /\ result' = ScheduleResult(FALSE, {}, <<>>, {"No eligible users found"}, 0)
          ELSE LET avail == load_user_availabilities(users, fte_data, vacation_data,
                                                     no_call_data)
                   dates == generate_date_range(start_date, end_date)
               IN  \E S \in {solutions(users, dates, call_types, avail,
                                        min_days_between_calls)} :
                   \E solve_time \in WallTimes :
                   /\ user_availabilities' = avail
                   /\ feasible_spreads' = {spread(a, users) : a \in S}
                   /\ \/ \E a \in optimal(S, users) :
                            /\ status' = "OPTIMAL"
                            /\ result' = success_result(a, users, dates, call_types,
                                                        "OPTIMAL", solve_time)
                      \/ \E a \in S :
                            /\ status' = "FEASIBLE"
                            /\ result' = success_result(a, users, dates, call_types,
                                                        "FEASIBLE", solve_time)
                      \/ /\ S = {}
                         /\ status' = "INFEASIBLE"
                         /\ result' = failure_result("INFEASIBLE", solve_time)
                      \/ /\ status' = "UNKNOWN"
                         /\ result' = failure_result("UNKNOWN", solve_time)
    /\ UNCHANGED << user_groups, fte_data, vacation_data, no_call_data, start_date,
                    end_date, call_types, min_days_between_calls,
                    enforce_weekend_rules, roster_available >>
    /\ UNCHANGED << engine_vars, loader_vars, calls >>

\* ------------------------------------------------------- rules engine calls
ValidateSandwichCompliance ==
    /\ pc = "engine"
    /\ "validate_sandwich_compliance" \notin called
    /\ compliance_violations' = validate_sandwich_compliance(weekend_assignments)
    /\ called' = called \cup {"validate_sandwich_compliance"}
    /\ UNCHANGED << optimizer_vars, loader_vars, calls, weekend_assignments,
                    friday_call_type, friday_pairing, unavailable, applied_assignments >>

GetFridayPairing ==
    /\ pc = "engine"
    /\ "get_friday_pairing" \notin called
    /\ friday_pairing' = get_friday_pairing(friday_call_type)
    /\ called' = called \cup {"get_friday_pairing"}
    /\ UNCHANGED << optimizer_vars, loader_vars, calls, weekend_assignments,
                    friday_call_type, compliance_violations, unavailable,
                    applied_assignments >>

ApplySandwichRules ==
    /\ pc = "engine"
    /\ "apply_sandwich_rules" \notin called
    /\ applied_assignments' = apply_sandwich_rules(weekend_assignments, unavailable)
    /\ called' = called \cup {"apply_sandwich_rules"}
    /\ UNCHANGED << optimizer_vars, loader_vars, calls, weekend_assignments,
                    friday_call_type, compliance_violations, friday_pairing,
                    unavailable >>

\* ---------------------------------------------- loader and validator calls
LoadUserAvailability ==
    /\ pc = "loader"
    /\ "load_user_availability" \notin called
    /\ loaded' = load_user_availability(roster_response, fte_responses,
                                        schedule_responses)
    /\ called' = called \cup {"load_user_availability"}
    /\ UNCHANGED << optimizer_vars, calls, weekend_assignments, compliance_violations,
                    friday_call_type, friday_pairing, unavailable, applied_assignments,
                    roster_response, fte_responses, schedule_responses, user_fte,
                    frequency_existing, frequency_new_date, frequency_verdict >>

GetUserFte ==
    /\ pc = "loader"
    /\ "_get_user_fte" \notin called
    /\ user_fte' = get_user_fte(fte_responses[1])
    /\ called' = called \cup {"_get_user_fte"}
    /\ UNCHANGED << optimizer_vars, calls, weekend_assignments, compliance_violations,
                    friday_call_type, friday_pairing, unavailable, applied_assignments,
                    roster_response, fte_responses, schedule_responses, loaded,
                    frequency_existing, frequency_new_date, frequency_verdict >>

\* a full-time user at FTE 1.0, the user_availability of the frequency check
FullTimeUser == UserAvailability(1, "Full Time", FteOne, {}, {}, {})

ValidateCallFrequency ==
    /\ pc = "loader"
    /\ "validate_call_frequency" \notin called
    /\ frequency_verdict' = validate_call_frequency(FullTimeUser, frequency_existing,
                                frequency_new_date, min_days_between_calls)
    /\ called' = called \cup {"validate_call_frequency"}
    /\ UNCHANGED << optimizer_vars, calls, weekend_assignments, compliance_violations,
                    friday_call_type, friday_pairing, unavailable, applied_assignments,
                    roster_response, fte_responses, schedule_responses, loaded,
                    user_fte, frequency_existing, frequency_new_date >>

\* ------------------------- two invocations of optimize_schedule, interleaved
\* Both invocations run on one CallScheduleOptimizer and one external source.
\* calls[i] holds what invocation i owns: its arguments, its position and its
\* local variables eligible_users, user_availabilities, dates and the result.
\* An invocation takes three steps, between which the other one may run: the
\* eligibility lookup (lines 71-73), the building of the model from the
\* availabilities and the date range (lines 77-172), the solve with the
\* construction of the result (lines 175-234).
Invocations == 1..2

other(i) == 3 - i

InFlight(i) == calls[i].pc \in {"users", "built"}

\* mutant: the date range is kept in a field of the optimizer, which the
\* invocation that built its model last has written
model_dates_shared(i) ==
    IF calls[other(i)].pc = "built" THEN calls[other(i)].dates ELSE calls[i].dates

\* the local variable dates of invocation i
model_dates(i) == calls[i].dates

\* invocation i returns r
returned(i, r) == [calls EXCEPT ![i] = [@ EXCEPT !.pc = "done", !.result = r]]

begin_optimize(i) ==
    /\ pc = "concurrent"
    /\ calls[i].pc = "ready"
    /\ LET users == get_eligible_users(roster_available, user_groups) IN
       calls' = [calls EXCEPT ![i] =
           IF users = {}
           THEN [@ EXCEPT !.pc = "done",
                          !.result = ScheduleResult(FALSE, {}, <<>>,
                                         {"No eligible users found"}, 0),
                          !.overlapped = InFlight(other(i))]
           ELSE [@ EXCEPT !.pc = "users",
                          !.eligible_users = users,
                          !.overlapped = InFlight(other(i))]]
    /\ UNCHANGED << optimizer_vars, engine_vars, loader_vars >>

build_model(i) ==
    /\ pc = "concurrent"
    /\ calls[i].pc = "users"
    /\ calls' = [calls EXCEPT ![i] =
           [@ EXCEPT !.pc = "built",
                     !.user_availabilities =
                         load_user_availabilities(calls[i].eligible_users, fte_data,
                                                  vacation_data, no_call_data),
                     !.dates = generate_date_range(calls[i].start_date,
                                                   calls[i].end_date)]]
    /\ UNCHANGED << optimizer_vars, engine_vars, loader_vars >>

solve_and_return(i) ==
    /\ pc = "concurrent"
    /\ calls[i].pc = "built"
    /\ LET users == calls[i].eligible_users
           dates == model_dates(i)
           cts == calls[i].call_types
       IN  \E S \in {solutions(users, dates, cts, calls[i].user_availabilities,
                                calls[i].min_days_between_calls)} :
           \E solve_time \in WallTimes :
           \/ \E a \in optimal(S, users) :
                 calls' = returned(i, success_result(a, users, dates, cts,
                                                     "OPTIMAL", solve_time))
           \/ \E a \in S :
                 calls' = returned(i, success_result(a, users, dates, cts,
                                                     "FEASIBLE", solve_time))
           \/ /\ S = {}
              /\ calls' = returned(i, failure_result("INFEASIBLE", solve_time))
           \/ calls' = returned(i, failure_result("UNKNOWN", solve_time))
    /\ UNCHANGED << optimizer_vars, engine_vars, loader_vars >>

\* ------------------------------------------------------------ initial states
AllCredGroups == DOMAIN credential_mapping

\* an employment group, which is no call credential
OtherGroup == "Full Time"

\* the duty-type lists the schedule is asked for
CallTypeChoices ==
    { {}, {"CMCG"}, {"CMCG", "CMCO"}, {"NE"}, {"NE", "CMCG"}, {"MCKT_D", "MCKG_D"},
      {"LP7", "LPG"} }

\* What the external source holds beyond the defaults (every credential,
\* FTE 1.0, no absence): user 1 may hold the CMCG pool only or work half time
\* or have a no-call request on the second day; user 2 may be on leave on the
\* first day or for the whole range.
Deviations ==
    LET dev(g, f, v, n) == [cmcg_only |-> g, half_time |-> f, leave |-> v, no_call |-> n]
    IN  { dev(FALSE, FALSE, "none", FALSE), dev(TRUE, FALSE, "none", FALSE),
          dev(FALSE, TRUE, "none", FALSE),  dev(FALSE, FALSE, "first", FALSE),
          dev(FALSE, FALSE, "all", FALSE),  dev(FALSE, FALSE, "none", TRUE),
          dev(FALSE, FALSE, "first", TRUE) }

\* the default of the external source and of the caller
NoDeviation == [cmcg_only |-> FALSE, half_time |-> FALSE, leave |-> "none", no_call |-> FALSE]

\* ---- the parts of the state a specification does not use stay at these values
LoaderUsers == 1..2

LoaderDates == {0}

ScheduleIds == {VACATION_SCHEDULE_ID, NO_CALL_SCHEDULE_ID, PART_TIME_SCHEDULE_ID}

\* a roster of the two users in the given employment groups
roster_of(g1, g2) ==
    [kind |-> "users",
     users |-> << [userid |-> 1, coregroup |-> g1], [userid |-> 2, coregroup |-> g2] >>]

\* every request answered, nobody absent, every FTE field 1.0
DefaultRoster == roster_of("Full Time", "Full Time")

DefaultFte == [u \in LoaderUsers |-> [kind |-> "value", value |-> FteOne]]

DefaultSchedules == [id \in ScheduleIds |-> [raises |-> FALSE, assignments |-> {}]]

NotLoaded == [raised |-> FALSE, value |-> <<>>]

NoVerdict == [is_valid |-> FALSE, reason |-> None]

LoaderIdle ==
    /\ roster_response = DefaultRoster
    /\ fte_responses = DefaultFte
    /\ schedule_responses = DefaultSchedules
    /\ loaded = NotLoaded
    /\ user_fte = 0
    /\ frequency_existing = <<>>
    /\ frequency_new_date = 0
    /\ frequency_verdict = NoVerdict

EngineIdle ==
    /\ weekend_assignments = <<>>
    /\ compliance_violations = <<>>
    /\ friday_call_type = None
    /\ friday_pairing = None
    /\ unavailable = {}
    /\ applied_assignments = <<>>

ConcurrentIdle == calls = <<>>

\* The first n roster users hold call credentials.  The roster lookup may fail
\* and the caller may ask for a run without weekend rules.
Init ==
    /\ start_date \in 0..6
    /\ end_date \in (start_date - 1)..(start_date + MaxDays - 1)
    /\ call_types \in CallTypeChoices
    /\ min_days_between_calls \in 0..MaxGap
    /\ enforce_weekend_rules \in BOOLEAN
    /\ roster_available \in BOOLEAN
    /\ \E n \in 0..MaxUsers : \E dev \in Deviations :
          /\ n * Cardinality(call_types) * (end_date - start_date + 1) <= MaxVars
          /\ (~enforce_weekend_rules \/ ~roster_available) => dev = NoDeviation
          /\ ~roster_available => (enforce_weekend_rules /\ n = MaxUsers)
          /\ user_groups = [u \in Roster |->
                IF u > n THEN {OtherGroup}
                ELSE IF u = 1 /\ dev.cmcg_only
                     THEN {"Cred Call: CMCG Call Pool", OtherGroup}
                     ELSE AllCredGroups]
          /\ fte_data = [u \in Roster |-> IF u = 1 /\ dev.half_time THEN 50 ELSE 100]
          /\ vacation_data = [u \in Roster |->
                IF u # 2 \/ dev.leave = "none" THEN {}
                ELSE IF dev.leave = "first" THEN {start_date}
                ELSE start_date..end_date]
          /\ no_call_data = [u \in Roster |->
                IF u = 1 /\ dev.no_call THEN {start_date + 1} ELSE {}]
    /\ pc = "ready"
    /\ eligible_users = {}
    /\ user_availabilities = <<>>
    /\ status = None
    /\ result = None
    /\ feasible_spreads = {}
    /\ called = {}
    /\ EngineIdle
    /\ LoaderIdle
    /\ ConcurrentIdle

Next == optimize_schedule

Spec == Init /\ [][Next]_vars

\* ------------------------------------------- the rules engine on its own
EngineUsers == 1..2

\* duty codes with a Friday rule to Saturday (LP7), Friday rules to Sunday
\* (LPG, LPO) and a consecutive rule (NE)
EngineCallTypes == {"LP7", "LPG", "LPO", "NE"}

\* the lists of at most n assignments
RECURSIVE assignment_lists(_, _)
assignment_lists(n, slots) ==
    IF n = 0 THEN {<<>>}
    ELSE LET shorter == assignment_lists(n - 1, slots)
         IN  shorter \cup {Append(l, x) : l \in {m \in shorter : Len(m) = n - 1}, x \in slots}

\* The schedule range starts on a Friday and ends on that Friday, the Saturday
\* or the Sunday; the assignments handed to the compliance check are inside it.
InitEngine ==
    /\ start_date = FRIDAY
    /\ end_date \in start_date..(start_date + 2)
    /\ weekend_assignments \in
          assignment_lists(MaxAssignments,
              {WeekendAssignment(u, d, ct) :
                  u \in EngineUsers, d \in start_date..end_date, ct \in EngineCallTypes})
    /\ \/ weekend_assignments = <<>> /\ friday_call_type \in DOMAIN Chars
       \/ /\ weekend_assignments # <<>>
          /\ friday_call_type = weekend_assignments[1].call_type
    /\ unavailable \in {{}, {1}}
    /\ compliance_violations = <<>>
    /\ friday_pairing = None
    /\ applied_assignments = <<>>
    /\ called = {}
    /\ pc = "engine"
    /\ LoaderIdle
    /\ ConcurrentIdle
    /\ user_groups = [u \in Roster |-> {OtherGroup}]
    /\ fte_data = [u \in Roster |-> 100]
    /\ vacation_data = [u \in Roster |-> {}]
    /\ no_call_data = [u \in Roster |-> {}]
    /\ call_types = EngineCallTypes
    /\ min_days_between_calls = 0
    /\ enforce_weekend_rules = TRUE
    /\ roster_available = TRUE
    /\ eligible_users = {}
    /\ user_availabilities = <<>>
    /\ status = None
    /\ result = None
    /\ feasible_spreads = {}

NextEngine == ValidateSandwichCompliance \/ GetFridayPairing \/ ApplySandwichRules

EngineSpec == InitEngine /\ [][NextEngine]_vars

\* ------------------------------- the loader and the validator on their own
\* what get_user_roster may do: raise, return [] on success false, or return
\* the two users, each in an eligible employment group or in another one
RosterResponses ==
    { [kind |-> k, users |-> <<>>] : k \in {"raises", "unsuccessful"} }
    \cup { roster_of(g1, g2) : g1 \in {"Full Time", "physician"},
                               g2 \in {"Part Time", "physician"} }
    \cup { DefaultRoster }

\* what get_assignments_by_schedule may do for one schedule: raise, or return
\* assignments of the two users on the dates of the range
ScheduleResponses ==
    { [raises |-> TRUE, assignments |-> {}] }
    \cup { [raises |-> FALSE, assignments |-> a] : a \in SUBSET (LoaderUsers \X LoaderDates) }

\* the lists of at most n dates
RECURSIVE date_lists(_, _)
date_lists(n, dates) ==
    IF n = 0 THEN {<<>>}
    ELSE LET shorter == date_lists(n - 1, dates)
         IN  shorter \cup {Append(l, x) : l \in {m \in shorter : Len(m) = n - 1}, x \in dates}

FrequencyDates == 0..3

\* Either the external source varies and the frequency check gets an empty
\* list, or the source is at its default and the arguments of the frequency
\* check vary.
InitLoader ==
    /\ pc = "loader"
    /\ called = {}
    /\ roster_response \in RosterResponses
    /\ fte_responses \in [LoaderUsers -> FteResponses]
    /\ fte_responses[2] \in {r \in FteResponses : r.kind = "raises" \/ r.value = FteOne}
    /\ schedule_responses \in [ScheduleIds -> ScheduleResponses]
    /\ min_days_between_calls \in 0..MaxGap
    /\ frequency_existing \in date_lists(MaxExisting, FrequencyDates)
    /\ frequency_new_date \in FrequencyDates
    /\ \/ /\ frequency_existing = <<>>
          /\ frequency_new_date = 0
          /\ min_days_between_calls = 0
       \/ /\ roster_response = DefaultRoster
          /\ fte_responses = DefaultFte
          /\ schedule_responses = DefaultSchedules
    /\ loaded = NotLoaded
    /\ user_fte = 0
    /\ frequency_verdict = NoVerdict
    /\ start_date = 0
    /\ end_date = 0
    /\ user_groups = [u \in Roster |-> {OtherGroup}]
    /\ fte_data = [u \in Roster |-> 100]
    /\ vacation_data = [u \in Roster |-> {}]
    /\ no_call_data = [u \in Roster |-> {}]
    /\ call_types = {}
    /\ enforce_weekend_rules = TRUE
    /\ roster_available = TRUE
    /\ eligible_users = {}
    /\ user_availabilities = <<>>
    /\ status = None
    /\ result = None
    /\ feasible_spreads = {}
    /\ EngineIdle
    /\ ConcurrentIdle

NextLoader == LoadUserAvailability \/ GetUserFte \/ ValidateCallFrequency

LoaderSpec == InitLoader /\ [][NextLoader]_vars

\* --------------------------------------------- two interleaved invocations
\* overlapping (Friday-Saturday, Saturday-Sunday) and disjoint (Monday-Tuesday)
\* date ranges
ConcurrentRanges == { <<FRIDAY, SATURDAY>>, <<SATURDAY, SATURDAY + 1>>, <<0, 1>> }

ConcurrentCallTypes == { {"CMCG"}, {"NE"} }

\* the arguments of one invocation, before its first step
invocation(range, cts, gap) ==
    [pc |-> "ready", start_date |-> range[1], end_date |-> range[2],
     call_types |-> cts, min_days_between_calls |-> gap,
     eligible_users |-> {}, user_availabilities |-> <<>>, dates |-> <<>>,
     result |-> None, overlapped |-> FALSE]

\* Two roster users hold every call credential, at FTE 1.0 and without
\* absences; the roster lookup may fail.
InitConcurrent ==
    /\ pc = "concurrent"
    /\ calls \in [Invocations ->
                    {invocation(range, cts, gap) :
                        range \in ConcurrentRanges, cts \in ConcurrentCallTypes,
                        gap \in 0..1}]
    /\ roster_available \in BOOLEAN
    /\ ~roster_available => calls[1] = calls[2]
    /\ user_groups = [u \in Roster |-> IF u <= 2 THEN AllCredGroups ELSE {OtherGroup}]
    /\ fte_data = [u \in Roster |-> 100]
    /\ vacation_data = [u \in Roster |-> {}]
    /\ no_call_data = [u \in Roster |-> {}]
    /\ start_date = 0
    /\ end_date = 0
    /\ call_types = {}
    /\ min_days_between_calls = 0
    /\ enforce_weekend_rules = TRUE
    /\ eligible_users = {}
    /\ user_availabilities = <<>>
    /\ status = None
    /\ result = None
    /\ feasible_spreads = {}
    /\ called = {}
    /\ EngineIdle
    /\ LoaderIdle

NextConcurrent ==
    \E i \in Invocations : begin_optimize(i) \/ build_model(i) \/ solve_and_return(i)

ConcurrentSpec == InitConcurrent /\ [][NextConcurrent]_vars

\* ================================================================ properties
Returned == pc = "done"

Succeeded == pc = "done" /\ result.success

HorizonDates == start_date..end_date

\* the number of assignments of user u in the returned schedule
Held(u) == Cardinality({x \in result.assignments : x[1] = u})

\* C1 (coverage): in every successful result each date of the inclusive range
\* and each duty type of call_types has exactly one assignment.
C1_Coverage ==
    Succeeded =>
        \A d \in HorizonDates : \A ct \in call_types :
            Cardinality({x \in result.assignments : x[2] = d /\ x[3] = ct}) = 1

C1_Witness ==
    /\ Succeeded
    /\ Cardinality(call_types) = 2
    /\ end_date = start_date + 2
    /\ Cardinality(eligible_users) >= 2
    /\ Cardinality(result.assignments) = 6

\* C2 (rest gap), as claimed: with min_days_between_calls >= 1, two dates on
\* which one person is assigned differ by more than min_days_between_calls.
C2_RestGap ==
    (Succeeded /\ min_days_between_calls >= 1) =>
        \A x \in result.assignments : \A y \in result.assignments :
            (x[1] = y[1] /\ x[2] < y[2]) => y[2] - x[2] > min_days_between_calls

\* C3 (Friday pairing closure), as claimed: a person holding on a Friday a
\* duty with a Friday pairing rule holds the rule's result duty on the paired
\* date, when that date is in the horizon.
C3_FridayPairing ==
    Succeeded =>
        \A x \in result.assignments :
            (weekday(x[2]) = FRIDAY /\ get_friday_pairing(x[3]) # None) =>
                LET pairing == get_friday_pairing(x[3])
                    target  == IF pairing[1] = "saturday" THEN x[2] + 1 ELSE x[2] + 2
                IN  target \in HorizonDates =>
                        <<x[1], target, pairing[2]>> \in result.assignments

\* C4 (Saturday pairing closure): a person holding on a Saturday, with the
\* Sunday in the horizon, a duty with a consecutive rule whose result duty is
\* among call_types holds that result duty on the Sunday.
C4_SaturdayPairing ==
    Succeeded =>
        \A x \in result.assignments :
            LET sunday_type ==
                    IF x[3] \in DOMAIN weekend_consecutive_rules
                    THEN (IF x[3] = "NE" THEN "NE"
                          ELSE IF x[3] = "MCKT_D" THEN "MCKG_D" ELSE "MCKT_D")
                    ELSE None
            IN  (/\ weekday(x[2]) = SATURDAY
                 /\ x[2] + 1 \in HorizonDates
                 /\ sunday_type # None
                 /\ sunday_type \in call_types) =>
                    <<x[1], x[2] + 1, sunday_type>> \in result.assignments

C4_Witness ==
    /\ Succeeded
    /\ Cardinality(eligible_users) >= 2
    /\ \E x \in result.assignments :
          /\ weekday(x[2]) = SATURDAY
          /\ x[3] = "MCKT_D"
          /\ <<x[1], x[2] + 1, "MCKG_D">> \in result.assignments

\* C5 (availability): no assignment of a successful result is on a date of
\* the person's vacation set or no-call set.
C5_Availability ==
    Succeeded =>
        \A x \in result.assignments :
            /\ x[2] \notin user_availabilities[x[1]].vacation_dates
            /\ x[2] \notin user_availabilities[x[1]].no_call_dates

C5_Witness ==
    /\ Succeeded
    /\ result.assignments # {}
    /\ \E u \in eligible_users :
          user_availabilities[u].vacation_dates \cap HorizonDates # {}
    /\ \E u \in eligible_users :
          user_availabilities[u].no_call_dates \cap HorizonDates # {}

\* C6 (exclusivity): no person holds two different duty types on one date.
C6_Exclusivity ==
    Succeeded =>
        \A x \in result.assignments : \A y \in result.assignments :
            (x[1] = y[1] /\ x[2] = y[2]) => x[3] = y[3]

C6_Witness ==
    /\ Succeeded
    /\ Cardinality(call_types) = 2
    /\ Cardinality(eligible_users) = 3
    /\ \E x \in result.assignments : \E y \in result.assignments :
          x[2] = y[2] /\ x[1] # y[1]

\* C7 (credential eligibility), as claimed: no assignment gives a person a
\* duty type outside the person's credential set.
C7_Credentials ==
    Succeeded =>
        \A x \in result.assignments :
            x[3] \in get_user_call_credentials(user_groups[x[1]])

\* C8 (capacity): a person with an availability record holds at most
\* floor(((duty types x days) / eligible persons) x FTE x 1.2) assignments.
C8_Capacity ==
    Succeeded =>
        \A u \in DOMAIN user_availabilities :
            Held(u) * Cardinality(eligible_users) * 1000 <=
                Cardinality(call_types) * Cardinality(HorizonDates)
                    * user_availabilities[u].fte * 12

C8_Witness ==
    /\ Succeeded
    /\ \E u \in eligible_users : user_availabilities[u].fte = 50 /\ Held(u) = 1
    /\ \E u \in eligible_users : user_availabilities[u].fte = 100 /\ Held(u) = 2

\* max - min of the assignment counts of the returned schedule over all
\* eligible persons
Spread == spread(result.assignments, eligible_users)

\* C9 (fairness): with status OPTIMAL, statistics['fairness_score'] is the
\* spread of the returned schedule over all eligible persons, and no schedule
\* that satisfies all hard constraints has a smaller spread.
C9_Fairness ==
    (Returned /\ status = "OPTIMAL") =>
        /\ result.statistics.fairness_score = Spread
        /\ \A sp \in feasible_spreads : sp >= result.statistics.fairness_score

C9_Witness ==
    /\ Returned
    /\ status = "OPTIMAL"
    /\ result.statistics.fairness_score = 0
    /\ Cardinality(eligible_users) = 2
    /\ Held(1) = 5
    /\ 2 \in feasible_spreads

\* the scenario of C10: three eligible persons at FTE 1.0, the single duty
\* type CMCG, three consecutive days, min_days_between_calls = 1, no absences
ScenarioC10 ==
    /\ Cardinality(eligible_users) = 3
    /\ \A u \in eligible_users :
          /\ user_availabilities[u].fte = 100
          /\ user_availabilities[u].vacation_dates = {}
          /\ user_availabilities[u].no_call_dates = {}
    /\ call_types = {"CMCG"}
    /\ end_date = start_date + 2
    /\ min_days_between_calls = 1

\* C10 (scenario): in the scenario the call, once the solver has reached a
\* verdict within its time limit, succeeds with exactly 3 assignments, one per
\* day, no person on two consecutive days, and a spread of at most 1.
C10_Scenario ==
    (Returned /\ ScenarioC10 /\ status # "UNKNOWN") =>
        /\ result.success
        /\ Cardinality(result.assignments) = 3
        /\ \A d \in HorizonDates :
              Cardinality({x \in result.assignments : x[2] = d}) = 1
        /\ \A x \in result.assignments : \A y \in result.assignments :
              x[1] = y[1] => y[2] # x[2] + 1
        /\ Spread <= 1

C10_Witness ==
    /\ Returned
    /\ ScenarioC10
    /\ result.success
    /\ status = "FEASIBLE"
    /\ weekday(start_date) = FRIDAY

\* the scenario of C11: 2 to 5 eligible persons at FTE 1.0 without absences,
\* one duty type, Tuesday 2030-01-01 to Thursday 2030-01-03,
\* min_days_between_calls = 1, weekend rules asked to be off
ScenarioC11 ==
    /\ Cardinality(eligible_users) \in 2..5
    /\ \A u \in eligible_users :
          /\ user_availabilities[u].fte = 100
          /\ user_availabilities[u].vacation_dates = {}
          /\ user_availabilities[u].no_call_dates = {}
    /\ Cardinality(call_types) = 1
    /\ start_date = 1
    /\ end_date = 3
    /\ min_days_between_calls = 1
    /\ ~enforce_weekend_rules

\* C11 (test scenario), as claimed: in the scenario the call, once the solver
\* has reached a verdict, succeeds with one assignment per day.
C11_TestScenario ==
    (Returned /\ ScenarioC11 /\ status # "UNKNOWN") =>
        /\ result.success
        /\ \A d \in HorizonDates :
              Cardinality({x \in result.assignments : x[2] = d}) = 1

\* person u is on leave on every date of the range
FullyBlocked(u) == HorizonDates \subseteq user_availabilities[u].vacation_dates

Unblocked(u) ==
    /\ user_availabilities[u].vacation_dates \cap HorizonDates = {}
    /\ user_availabilities[u].no_call_dates \cap HorizonDates = {}

\* r persons can fill every slot with the rest gap respected: each day takes
\* |call_types| persons, who rest for the next min_days_between_calls days
EnoughFor(r) ==
    r >= Cardinality(call_types)
            * Min({Cardinality(HorizonDates), min_days_between_calls + 1})

\* C12 (fully blocked person), as claimed: with one eligible person on leave
\* for the whole range and the others unblocked and numerous enough, the call
\* succeeds, the blocked person holds nothing and violations is empty.
C12_FullyBlocked ==
    \A b \in eligible_users :
        (/\ Returned
         /\ status # "UNKNOWN"
         /\ HorizonDates # {}
         /\ call_types # {}
         /\ FullyBlocked(b)
         /\ \A u \in eligible_users \ {b} : Unblocked(u)
         /\ EnoughFor(Cardinality(eligible_users) - 1)) =>
            /\ result.success
            /\ Held(b) = 0
            /\ result.violations = {}

\* C13 (infeasibility is a result): when the model has no solution, or the
\* solver ends INFEASIBLE or without a verdict, the call returns success =
\* false, no assignments, empty statistics and the violation that names the
\* solver status.
C13_Infeasibility ==
    (/\ Returned
     /\ eligible_users # {}
     /\ (feasible_spreads = {} \/ status \in {"INFEASIBLE", "UNKNOWN"})) =>
        /\ ~result.success
        /\ result.assignments = {}
        /\ result.statistics = <<>>
        /\ result.violations # {}
        /\ result.violations = {"Optimization failed: " \o status}
        /\ status \in {"INFEASIBLE", "UNKNOWN"}

C13_Witness ==
    /\ Returned
    /\ Cardinality(eligible_users) = 2
    /\ end_date = start_date + 2
    /\ feasible_spreads = {}
    /\ status = "INFEASIBLE"
    /\ result.violations = {"Optimization failed: INFEASIBLE"}

\* C14 (zero duty types), as claimed: with an empty call_types list and an
\* eligible person the call returns success = false with a violation.
C14_ZeroDutyTypes ==
    (Returned /\ call_types = {} /\ eligible_users # {}) =>
        /\ ~result.success
        /\ result.violations # {}

\* no roster user has a call credential group
NoCredentialedUser == \A u \in Roster : user_groups[u] \cap AllCredGroups = {}

\* C15 (zero eligible persons): when no roster user has a call credential
\* group, or the roster lookup fails, the call returns success = false, no
\* assignments, the violation "No eligible users found" and solve time 0,
\* and no solve has taken place.
C15_NoEligibleUsers ==
    (Returned /\ (NoCredentialedUser \/ ~roster_available)) =>
        /\ ~result.success
        /\ result.assignments = {}
        /\ result.violations = {"No eligible users found"}
        /\ result.solve_time_seconds = 0
        /\ status = None

C15_Witness ==
    /\ Returned
    /\ ~roster_available
    /\ ~NoCredentialedUser
    /\ eligible_users = {}
    /\ ~result.success
    /\ result.solve_time_seconds = 0

\* the constraints the optimizer adds, on the returned assignments
HardConstraintsHold ==
    LET a == result.assignments
        dates == generate_date_range(start_date, end_date)
    IN  /\ covered_exactly_once(a, eligible_users, HorizonDates, call_types)
        /\ at_most_one_per_day(a, eligible_users, HorizonDates, call_types)
        /\ respects_availability(a, eligible_users, HorizonDates, call_types,
                                 user_availabilities)
        /\ min_days_between(a, eligible_users, dates, call_types, min_days_between_calls)
        /\ friday_sandwich(a, eligible_users, dates, call_types)
        /\ saturday_sandwich(a, eligible_users, dates, call_types)
        /\ fte_based(a, eligible_users, dates, call_types, user_availabilities)

Validated == "validate_sandwich_compliance" \in called

\* at most one assignment per (person, date) in the list
OnePerPersonAndDate ==
    \A i \in DOMAIN weekend_assignments : \A j \in DOMAIN weekend_assignments :
        (/\ weekend_assignments[i].user_id = weekend_assignments[j].user_id
         /\ weekend_assignments[i].date = weekend_assignments[j].date) => i = j

Holds(u, d, ct) ==
    \E i \in DOMAIN weekend_assignments :
        weekend_assignments[i] = WeekendAssignment(u, d, ct)

\* duty ct held on date d is a pairing trigger, by the two rule tables
Triggers(d, ct) ==
    \/ weekday(d) = FRIDAY /\ ct \in DOMAIN friday_to_weekend_rules
    \/ weekday(d) = SATURDAY /\ ct \in DOMAIN weekend_consecutive_rules

\* the paired date and duty of a trigger
Obligation(d, ct) ==
    IF weekday(d) = FRIDAY
    THEN [date |-> IF ct \in {"LP7", "MCL7", "THDN7", "THRW7"} THEN d + 1 ELSE d + 2,
          call_type |-> friday_to_weekend_rules[ct]]
    ELSE [date |-> d + 1,
          call_type |-> IF ct = "NE" THEN "NE"
                        ELSE IF ct = "MCKT_D" THEN "MCKG_D" ELSE "MCKT_D"]

\* person u holds on d a trigger duty whose paired duty u does not hold on
\* the paired date
Unmet(u, d) ==
    \E ct \in EngineCallTypes :
        /\ Holds(u, d, ct)
        /\ Triggers(d, ct)
        /\ ~Holds(u, Obligation(d, ct).date, Obligation(d, ct).call_type)

Reported(u, d) ==
    \E k \in DOMAIN compliance_violations :
        compliance_violations[k].user_id = u /\ compliance_violations[k].date = d

\* C17 (compliance check): for a list with at most one assignment per person
\* and date, a violation is returned for (person, date) exactly when the
\* person holds a trigger duty there whose paired duty is missing or different
\* on the paired date; the list is empty iff there is no such case.
C17_Compliance ==
    (Validated /\ OnePerPersonAndDate) =>
        /\ \A u \in EngineUsers : \A d \in HorizonDates : Reported(u, d) <=> Unmet(u, d)
        /\ \A k \in DOMAIN compliance_violations :
              compliance_violations[k].user_id \in EngineUsers
                  /\ compliance_violations[k].date \in HorizonDates
        /\ (compliance_violations = <<>> <=>
              ~ \E u \in EngineUsers : \E d \in HorizonDates : Unmet(u, d))

C17_Witness ==
    /\ Validated
    /\ OnePerPersonAndDate
    /\ Len(weekend_assignments) = 2
    /\ Len(compliance_violations) = 1
    /\ compliance_violations[1].day_name = "Saturday"
    /\ compliance_violations[1].call_type = "NE"
    /\ compliance_violations[1].assigned = "LPO"

\* C18 (end of horizon), as claimed: no violation is returned for a trigger
\* whose paired date lies after the end of the schedule range.
C18_EndOfHorizon ==
    (Validated /\ OnePerPersonAndDate) =>
        \A i \in DOMAIN weekend_assignments :
            LET x == weekend_assignments[i] IN
            (/\ Triggers(x.date, x.call_type)
             /\ Obligation(x.date, x.call_type).date > end_date) =>
                ~Reported(x.user_id, x.date)

\* C19 (Friday pairing lookup): get_friday_pairing returns None iff the duty
\* type is no key of the Friday rule table; otherwise the pair of the day,
\* 'saturday' iff the code ends in '7' and 'sunday' otherwise, and the
\* table's entry.
C19_FridayPairingLookup ==
    "get_friday_pairing" \in called =>
        IF friday_call_type \notin DOMAIN friday_to_weekend_rules
        THEN friday_pairing = None
        ELSE /\ friday_pairing # None
             /\ friday_pairing[1] \in {"saturday", "sunday"}
             /\ (friday_pairing[1] = "saturday" <=>
                   Chars[friday_call_type][Len(Chars[friday_call_type])] = "7")
             /\ friday_pairing[2] = friday_to_weekend_rules[friday_call_type]

C19_Witness ==
    /\ "get_friday_pairing" \in called
    /\ friday_call_type = "LP7"
    /\ friday_pairing = <<"saturday", "LPG">>

\* the valuations that satisfy every constraint of the model but the weekend
\* sandwich implications
WithoutPairing ==
    LET dates == generate_date_range(start_date, end_date)
    IN  {a \in day_products(Len(dates), dates, eligible_users, call_types,
                            user_availabilities) :
            /\ min_days_between(a, eligible_users, dates, call_types,
                                min_days_between_calls)
            /\ fte_based(a, eligible_users, dates, call_types, user_availabilities)}

\* C20 (configurable weekend rules), as claimed: with enforce_weekend_rules
\* off no pairing implication is in the model, so the call fails for
\* infeasibility only when the constraints other than the pairing cannot be
\* met.
C20_WeekendRulesOff ==
    (/\ Returned
     /\ ~enforce_weekend_rules
     /\ eligible_users # {}
     /\ status = "INFEASIBLE") => WithoutPairing = {}


\* ------------------------------------------- availability loader, validator
Loaded == "load_user_availability" \in called

\* the users the schedule requests list with some date
listed_under(id, u) == dates_of(schedule_responses[id].assignments, u)

\* C21 (resolver completeness under failure), as claimed: whatever requests
\* fail, load_user_availability raises nothing and returns exactly one record
\* for every person of the run; a person whose FTE lookup fails has FTE 1.0
\* and a failed schedule request leaves that person's date set empty.
C21_ResolverCompleteness ==
    Loaded =>
        /\ ~loaded.raised
        /\ DOMAIN loaded.value = LoaderUsers
        /\ \A u \in LoaderUsers :
              /\ fte_responses[u].kind = "raises" => loaded.value[u].fte = FteOne
              /\ schedule_responses[VACATION_SCHEDULE_ID].raises
                    => loaded.value[u].vacation_dates = {}
              /\ schedule_responses[NO_CALL_SCHEDULE_ID].raises
                    => loaded.value[u].no_call_dates = {}
              /\ schedule_responses[PART_TIME_SCHEDULE_ID].raises
                    => loaded.value[u].part_time_dates = {}

\* C22 (FTE normalization): _get_user_fte returns the hundredth of a field
\* value above 1.0, a field value of at most 1.0 itself, and 1.0 when the
\* lookup raises, is unsuccessful or carries no usable value.
C22_FteNormalization ==
    "_get_user_fte" \in called =>
        LET response == fte_responses[1]
        IN  /\ (response.kind = "value" /\ response.value > FteOne)
                  => user_fte * 100 = response.value
            /\ (response.kind = "value" /\ response.value <= FteOne)
                  => user_fte = response.value
            /\ response.kind # "value" => user_fte = FteOne

C22_Witness ==
    /\ "_get_user_fte" \in called
    /\ fte_responses[1] = [kind |-> "value", value |-> 50 * FteOne]
    /\ 2 * user_fte = FteOne

\* C23 (FTE range), as claimed: for every field value the source may return,
\* the FTE _get_user_fte returns and the FTE of every loaded record is above
\* 0 and at most 1.0.
C23_FteRange ==
    /\ "_get_user_fte" \in called => (0 < user_fte /\ user_fte <= FteOne)
    /\ (Loaded /\ ~loaded.raised) =>
          \A u \in DOMAIN loaded.value :
              0 < loaded.value[u].fte /\ loaded.value[u].fte <= FteOne

\* C24 (disjoint absence sets), as claimed: in every loaded record no date is
\* in two of the three sets, and a date the source lists for the person under
\* the vacation schedule is in the vacation set only.
C24_DisjointAbsences ==
    (Loaded /\ ~loaded.raised) =>
        \A u \in DOMAIN loaded.value :
            LET record == loaded.value[u]
            IN  /\ record.vacation_dates \cap record.no_call_dates = {}
                /\ record.vacation_dates \cap record.part_time_dates = {}
                /\ record.no_call_dates \cap record.part_time_dates = {}
                /\ listed_under(VACATION_SCHEDULE_ID, u) \subseteq record.vacation_dates

\* the distance in days of two dates
days_between(d, e) == IF d < e THEN e - d ELSE d - e

\* C26 (validator and optimizer agree on the rest gap), as claimed: with the
\* limits on the number of calls and on consecutive calls not binding,
\* validate_call_frequency accepts the new date exactly when it is more than
\* min_days_between_calls days away from every existing date.
C26_ValidatorAgreesWithOptimizer ==
    (/\ "validate_call_frequency" \in called
     /\ Len(frequency_existing) < get_max_calls_for_period(FullTimeUser)
     /\ count_consecutive_calls(frequency_existing, frequency_new_date)
           <= max_consecutive_calls) =>
        (frequency_verdict.is_valid <=>
            \A i \in DOMAIN frequency_existing :
                days_between(frequency_new_date, frequency_existing[i])
                    > min_days_between_calls)


\* ------------------------------------------------ capacity, pairing and rest
\* every eligible person works full time and is absent on no day of the range
AllFullTimeAndPresent ==
    \A u \in eligible_users : user_availabilities[u].fte = 100 /\ Unblocked(u)

\* no day of the range is a Friday or a Saturday, the days pairing rules start
NoPairingTriggered == \A d \in HorizonDates : weekday(d) \notin {FRIDAY, SATURDAY}

\* the capacity caps of the eligible persons, summed (all at FTE 1.0)
SumOfCaps ==
    Cardinality(eligible_users)
        * max_calls_for_user(Cardinality(call_types), Cardinality(HorizonDates),
                             Cardinality(eligible_users), 100)

\* C27 (capacity never causes infeasibility), as claimed: with every person at
\* FTE 1.0, nobody absent, min_days_between_calls = 0, no pairing rule
\* triggered and at least as many eligible persons as duty types, the caps sum
\* to at least the number of slots and the call succeeds.
C27_CapacitySuffices ==
    (/\ Returned
     /\ status # "UNKNOWN"
     /\ call_types # {}
     /\ HorizonDates # {}
     /\ eligible_users # {}
     /\ Cardinality(eligible_users) >= Cardinality(call_types)
     /\ AllFullTimeAndPresent
     /\ min_days_between_calls = 0
     /\ NoPairingTriggered) =>
        /\ SumOfCaps >= Cardinality(call_types) * Cardinality(HorizonDates)
        /\ result.success

\* a Saturday of the range whose Sunday is in the range too
WeekendInHorizon ==
    \E d \in HorizonDates : weekday(d) = SATURDAY /\ d + 1 \in HorizonDates

\* call_types holds a duty with a consecutive rule together with its result
ConsecutivePairRequested ==
    \E ct \in call_types :
        /\ get_weekend_consecutive_pairing(ct) # None
        /\ get_weekend_consecutive_pairing(ct) \in call_types

\* C28 (pairing against rest gap), as claimed: with min_days_between_calls of
\* at least 1, a Saturday and its Sunday in the range and a consecutive rule
\* with its result among call_types, the call returns success = false for
\* every set of persons.
C28_PairingAgainstRest ==
    (/\ Returned
     /\ min_days_between_calls >= 1
     /\ WeekendInHorizon
     /\ ConsecutivePairRequested) =>
        ~result.success


\* ------------------------------------------------------ apply_sandwich_rules
Applied == "apply_sandwich_rules" \in called

\* person u holds some assignment on date d in the input list
HoldsOn(u, d) ==
    \E i \in DOMAIN weekend_assignments :
        weekend_assignments[i].user_id = u /\ weekend_assignments[i].date = d

\* nobody holds an assignment on a date one of their own triggers targets
NoTargetHeld ==
    \A i \in DOMAIN weekend_assignments :
        LET x == weekend_assignments[i] IN
        Triggers(x.date, x.call_type) =>
            ~HoldsOn(x.user_id, Obligation(x.date, x.call_type).date)

\* C29 (apply, then validate), as claimed: for a list with at most one
\* assignment per person and date, nobody unavailable and nobody holding an
\* assignment on a date targeted by one of their own rules, the list
\* apply_sandwich_rules returns passes validate_sandwich_compliance.
C29_ApplyThenValidate ==
    (Applied /\ OnePerPersonAndDate /\ unavailable = {} /\ NoTargetHeld) =>
        validate_sandwich_compliance(applied_assignments) = <<>>

\* entry e of the output is what a rule creates for a trigger that an
\* available person holds in the input
CreatedByRule(e) ==
    /\ e.is_required_pair
    /\ e.user_id \notin unavailable
    /\ \E d \in HorizonDates : \E ct \in EngineCallTypes :
          /\ Holds(e.user_id, d, ct)
          /\ Triggers(d, ct)
          /\ Obligation(d, ct).date = e.date
          /\ Obligation(d, ct).call_type = e.call_type

\* C30 (only adds, idempotent): the list apply_sandwich_rules returns starts
\* with the input list unchanged, every further entry is marked
\* is_required_pair and belongs to a person holding the triggering duty, and
\* applying apply_sandwich_rules to the returned list, with the same
\* unavailable set, returns it as it is.
C30_OnlyAddsAndIdempotent ==
    Applied =>
        /\ Len(applied_assignments) >= Len(weekend_assignments)
        /\ SubSeq(applied_assignments, 1, Len(weekend_assignments)) = weekend_assignments
        /\ \A k \in (Len(weekend_assignments) + 1)..Len(applied_assignments) :
              CreatedByRule(applied_assignments[k])
        /\ apply_sandwich_rules(applied_assignments, unavailable) = applied_assignments

C30_Witness ==
    /\ Applied
    /\ unavailable = {1}
    /\ Len(weekend_assignments) = 2
    /\ weekend_assignments[1].user_id = 1
    /\ Triggers(weekend_assignments[1].date, weekend_assignments[1].call_type)
    /\ Len(applied_assignments) = 3
    /\ applied_assignments[3] = RequiredPair(2, SATURDAY, "LPG")


\* ------------------------------------------------ interleaved invocations
\* r is a result optimize_schedule can return when it runs alone with the
\* arguments of invocation i
AloneReturns(i, r) ==
    LET users == get_eligible_users(roster_available, user_groups)
        avail == load_user_availabilities(users, fte_data, vacation_data, no_call_data)
        dates == generate_date_range(calls[i].start_date, calls[i].end_date)
        cts == calls[i].call_types
        S == solutions(users, dates, cts, avail, calls[i].min_days_between_calls)
    IN  IF users = {}
        THEN /\ ~r.success
             /\ r.violations = {"No eligible users found"}
             /\ r.assignments = {}
             /\ r.solve_time_seconds = 0
        ELSE /\ r.solve_time_seconds \in WallTimes
             /\ IF r.success
                THEN /\ r.assignments \in S
                     /\ r.statistics.solve_status = "OPTIMAL"
                            => r.assignments \in optimal(S, users)
                     /\ r = success_result(r.assignments, users, dates, cts,
                                           r.statistics.solve_status,
                                           r.solve_time_seconds)
                ELSE /\ r.assignments = {}
                     /\ r.violations \in
                           { {"Optimization failed: UNKNOWN"} }
                           \cup (IF S = {} THEN { {"Optimization failed: INFEASIBLE"} }
                                 ELSE {})

\* what both invocations share: the external source and the rule tables'
\* users, the fields of the rules engine calls, the loader's responses
shared_vars == << optimizer_vars, engine_vars, loader_vars >>

\* the arguments invocation i was called with
arguments(i) ==
    << calls[i].start_date, calls[i].end_date, calls[i].call_types,
       calls[i].min_days_between_calls >>

\* C25 (no shared mutable state): however the steps of two invocations on one
\* optimizer interleave, each invocation returns a result it can return when
\* run alone with its arguments, and no step writes the external source, a
\* field shared by the invocations, or the arguments of either invocation.
C25_NoSharedState ==
    /\ [](\A i \in Invocations :
             calls[i].pc = "done" => AloneReturns(i, calls[i].result))
    /\ [][/\ UNCHANGED shared_vars
          /\ \A i \in Invocations : arguments(i)' = arguments(i)]_vars

\* the second invocation began while the first was between two steps, and
\* both have returned different schedules for overlapping ranges
C25_Witness ==
    /\ calls[1].pc = "done"
    /\ calls[2].pc = "done"
    /\ calls[2].overlapped
    /\ <<calls[1].start_date, calls[1].end_date>> = <<FRIDAY, SATURDAY>>
    /\ <<calls[2].start_date, calls[2].end_date>> = <<SATURDAY, SATURDAY + 1>>
    /\ calls[1].result.success
    /\ calls[2].result.success
    /\ calls[1].call_types = calls[2].call_types
    /\ Cardinality(calls[1].result.assignments) = 2
    /\ Cardinality(calls[2].result.assignments) = 2

====
